---- MODULE Spec2Model ----
(***************************************************************************)
(* Model of lightning_hpo/app/ui/src/hooks/useClientDataState.tsx:         *)
(* ClientDataProvider (a polling provider component) and the reader hook   *)
(* useClientDataState.                                                     *)
(*                                                                         *)
(* A "session" is one mounted ClientDataProvider instance: its reducer     *)
(* state, the closure of its mount effect (post, interval) and its         *)
(* position in the component tree.  Library semantics the code relies on   *)
(* are modelled as the libraries define them:                              *)
(*   - useEffect(f, []) runs f once after mount and its cleanup on unmount;*)
(*     the closure keeps the props of the first render;                    *)
(*   - useReducer state belongs to the mounted instance; a dispatch that   *)
(*     arrives after unmount is dropped by React;                          *)
(*   - setInterval fires its callback every Period ms until clearInterval, *)
(*     which also cancels a callback that is due but has not run yet;      *)
(*   - useContext(C) yields the value of the nearest enclosing C.Provider, *)
(*     or the default value of C when there is none.                       *)
(* dispatch and the re-render that applies it are one step.                *)
(***************************************************************************)
EXTENDS Integers, Sequences, FiniteSets, TLC

\* ---------------------------------------------------------------- bounds
MaxFetches == 4
MaxSteps == 2
MaxReads == 1

\* ------------------------------------------------------------- constants
Period == 1000
Step == Period \div 2
MaxTime == MaxSteps * Step

\* every session makes a call when it mounts and one more at its first tick
MaxSessions == MaxFetches \div 2

Sessions == 1..MaxSessions
Root == 0

\* the keys of clientEndpoints (each maps to one fetch function)
clientEndpoints == {"sweeps", "notebooks", "tensorboards"}

\* React.createContext<any[]>([]) for each key: the default value
clientDataContexts == [k \in clientEndpoints |-> << >>]

\* the endpoint props the model draws from
Keys == {"sweeps", "notebooks"}

\* what the remote data source may answer
Responses == { <<"a">>, <<"b">> }

VARIABLES
  status,        \* session -> "unmounted" | "running" | "stopped"
  endpoint,      \* session -> props.endpoint as captured by the effect closure
  propEndpoint,  \* session -> props.endpoint of the latest render
  parent,        \* session -> enclosing session (Root when none)
  state,         \* session -> reducer state, the value given to context.Provider
  interval,      \* session -> [active, due]: the timer made by setInterval
  issued,        \* session -> number of post() calls made by the session
  ticks,         \* session -> number of interval callbacks that have run
  pending,       \* session -> fetch numbers still in flight
  fetchCalls,    \* key -> number of calls of clientEndpoints[key]
  completions,   \* session -> its settled fetches [no, ok, data], in completion order
  notifications, \* snackbars enqueued so far
  reads,         \* number of useClientDataState calls made by readers
  now            \* clock, ms

vars == << status, endpoint, propEndpoint, parent, state, interval, issued,
           ticks, pending, fetchCalls, completions, notifications, reads, now >>

\* ------------------------------------------------------------- helpers
TotalCalls == fetchCalls["sweeps"] + fetchCalls["notebooks"] + fetchCalls["tensorboards"]

Running == { s \in Sessions : status[s] = "running" }

\* where a reader can be: under a running provider, or under none
Positions == {Root} \cup Running

RECURSIVE IsUnder(_, _)
IsUnder(t, s) ==
  IF t = Root THEN FALSE
  ELSE IF t = s THEN TRUE
  ELSE IsUnder(parent[t], s)

Subtree(s) == { t \in Sessions : IsUnder(t, s) }

Min(S) == CHOOSE x \in S : \A y \in S : x <= y

\* ------------------------------------------------------------ the code
\* a reducer that appends the new items to the old ones
reducerMerge(st, newValue) == st \o newValue

\* useReducer((state, newValue) => newValue, [])
reducer(st, newValue) == newValue

\* an initial state that is a placeholder item, not the empty list
InitialStatePlaceholder == << "loading" >>

\* useReducer(..., [])
InitialState == << >>

\* a dispatch into one store shared by all mounted providers
dispatchShared(s, newValue) ==
  [t \in Sessions |->
     IF status[t] = "running" /\ status[s] = "running"
       THEN reducer(state[t], newValue) ELSE state[t]]

\* a dispatch that reaches the state of an unmounted instance too
dispatchUnguarded(s, newValue) == [state EXCEPT ![s] = reducer(@, newValue)]

\* dispatch(data): React applies the reducer to a mounted instance only
dispatch(s, newValue) ==
  IF status[s] = "running"
    THEN [state EXCEPT ![s] = reducer(@, newValue)]
    ELSE state

enqueueSnackbar(q) ==
  Append(q, [title |-> "Error Fetching Data",
             children |-> "Try reloading the page",
             severity |-> "error"])

\* a handler that drops the answer of a fetch older than one already published
onFulfilledIgnoreStale(s, n, data) ==
  /\ state' = IF \E i \in DOMAIN completions[s] :
                    completions[s][i].ok /\ completions[s][i].no > n
                THEN state
                ELSE dispatch(s, data)
  /\ UNCHANGED << notifications, status, interval >>

\* .then(data => dispatch(data)), for fetch number n of session s
onFulfilled(s, n, data) ==
  /\ state' = dispatch(s, data)
  /\ UNCHANGED << notifications, status, interval >>

\* a handler that also clears the displayed data
onRejectedClears(s, n) ==
  /\ notifications' = enqueueSnackbar(notifications)
  /\ state' = [state EXCEPT ![s] = << >>]
  /\ UNCHANGED << status, interval >>

\* a handler that stays silent once its provider is unmounted
onRejectedSilentAfterUnmount(s, n) ==
  /\ notifications' = IF status[s] = "running"
                        THEN enqueueSnackbar(notifications)
                        ELSE notifications
  /\ UNCHANGED << state, status, interval >>

\* a handler that publishes the failure as the data
onRejectedPublishesError(s, n) ==
  /\ notifications' = enqueueSnackbar(notifications)
  /\ state' = dispatch(s, << "error" >>)
  /\ UNCHANGED << status, interval >>

\* a handler that gives up polling after a failure
onRejectedStopsPolling(s, n) ==
  /\ notifications' = enqueueSnackbar(notifications)
  /\ interval' = [interval EXCEPT ![s].active = FALSE]
  /\ UNCHANGED << state, status >>

\* .catch(error => enqueueSnackbar({...})), for fetch number n of session s
onRejected(s, n) ==
  /\ notifications' = enqueueSnackbar(notifications)
  /\ UNCHANGED << state, status, interval >>

\* a post() that skips the call while an earlier fetch of the session is in flight
postSkipsWhileInFlight(s, k) ==
  IF pending[s] # {}
    THEN UNCHANGED << issued, pending, fetchCalls >>
    ELSE /\ issued' = [issued EXCEPT ![s] = @ + 1]
         /\ pending' = [pending EXCEPT ![s] = @ \cup {issued[s] + 1}]
         /\ fetchCalls' = [fetchCalls EXCEPT ![k] = @ + 1]

\* a post() that makes no call while another running session polls the same key
postDeduplicated(s, k) ==
  IF \E t \in Sessions \ {s} : status[t] = "running" /\ endpoint[t] = k
    THEN UNCHANGED << issued, pending, fetchCalls >>
    ELSE /\ issued' = [issued EXCEPT ![s] = @ + 1]
         /\ pending' = [pending EXCEPT ![s] = @ \cup {issued[s] + 1}]
         /\ fetchCalls' = [fetchCalls EXCEPT ![k] = @ + 1]

\* post(): one call of clientEndpoints[k]; the promise is now in flight
post(s, k) ==
  /\ issued' = [issued EXCEPT ![s] = @ + 1]
  /\ pending' = [pending EXCEPT ![s] = @ \cup {issued[s] + 1}]
  /\ fetchCalls' = [fetchCalls EXCEPT ![k] = @ + 1]

setInterval(t) == [active |-> TRUE, due |-> t + Period]

\* a clearInterval that is handed a stale handle and cancels nothing
clearIntervalWrongHandle(iv) == iv

clearInterval(iv) == [iv EXCEPT !.active = FALSE]

\* a mount effect that leaves the first fetch to the first tick
useEffectNoInitialPost(s, k) ==
  /\ interval' = [interval EXCEPT ![s] = setInterval(now)]
  /\ UNCHANGED << issued, pending, fetchCalls >>

\* the body of the mount effect: post(); interval = setInterval(post, 1000)
useEffect(s, k) ==
  /\ post(s, k)
  /\ interval' = [interval EXCEPT ![s] = setInterval(now)]

\* a cleanup that leaves the timer alone
cleanupKeepsInterval(iv) == iv

\* the effect's cleanup: () => clearInterval(interval)
cleanup(iv) == clearInterval(iv)

\* useClientDataState(k) called by a reader rendered directly under pos
RECURSIVE NearestProvider(_, _)
NearestProvider(pos, k) ==
  IF pos = Root THEN Root
  ELSE IF propEndpoint[pos] = k THEN pos
  ELSE NearestProvider(parent[pos], k)

useClientDataState(pos, k) ==
  LET p == NearestProvider(pos, k)
  IN IF p = Root THEN clientDataContexts[k] ELSE state[p]

\* a hook that makes its own call of the endpoint whenever a reader renders
useContextFetches(pos, k) ==
  /\ fetchCalls' = [fetchCalls EXCEPT ![k] = @ + 1]
  /\ UNCHANGED << status, endpoint, propEndpoint, parent, state, interval,
                  issued, ticks, pending, completions, notifications, now >>

\* React.useContext(clientDataContexts[k]) in a reader under pos: the hook body
\* assigns nothing and calls nothing but useContext
useContext(pos, k) ==
  UNCHANGED << status, endpoint, propEndpoint, parent, state, interval,
               issued, ticks, pending, fetchCalls, completions, notifications,
               now >>

\* ------------------------------------------------------------- actions
Init ==
  /\ status = [s \in Sessions |-> "unmounted"]
  /\ endpoint = [s \in Sessions |-> "none"]
  /\ propEndpoint = [s \in Sessions |-> "none"]
  /\ parent = [s \in Sessions |-> Root]
  /\ state = [s \in Sessions |-> InitialState]
  /\ interval = [s \in Sessions |-> [active |-> FALSE, due |-> 0]]
  /\ issued = [s \in Sessions |-> 0]
  /\ ticks = [s \in Sessions |-> 0]
  /\ pending = [s \in Sessions |-> {}]
  /\ fetchCalls = [k \in clientEndpoints |-> 0]
  /\ completions = [s \in Sessions |-> << >>]
  /\ notifications = << >>
  /\ reads = 0
  /\ now = 0

\* a new <ClientDataProvider endpoint={k}> is mounted under p
Mount(s, k, p) ==
  /\ status[s] = "unmounted"
  /\ \A t \in Sessions : t < s => status[t] # "unmounted"
  /\ p \in {Root} \cup Running
  /\ TotalCalls < MaxFetches
  /\ status' = [status EXCEPT ![s] = "running"]
  /\ endpoint' = [endpoint EXCEPT ![s] = k]
  /\ propEndpoint' = [propEndpoint EXCEPT ![s] = k]
  /\ parent' = [parent EXCEPT ![s] = p]
  /\ state' = [state EXCEPT ![s] = InitialState]
  /\ useEffect(s, k)
  /\ UNCHANGED << ticks, completions, notifications, reads, now >>

\* the provider is rendered again with another endpoint prop
Render(s, k) ==
  /\ status[s] = "running"
  /\ k # propEndpoint[s]
  /\ propEndpoint' = [propEndpoint EXCEPT ![s] = k]
  /\ UNCHANGED << status, endpoint, parent, state, interval, issued, ticks,
                  pending, fetchCalls, completions, notifications, reads, now >>

\* the provider is unmounted, and with it everything rendered under it
Unmount(s) ==
  /\ status[s] = "running"
  /\ status' = [t \in Sessions |->
                  IF t \in Subtree(s) /\ status[t] = "running"
                    THEN "stopped" ELSE status[t]]
  /\ interval' = [t \in Sessions |->
                  IF t \in Subtree(s) /\ status[t] = "running"
                    THEN cleanup(interval[t]) ELSE interval[t]]
  /\ propEndpoint' = [t \in Sessions |->
                  IF t \in Subtree(s) /\ status[t] = "running"
                    THEN "none" ELSE propEndpoint[t]]
  /\ parent' = [t \in Sessions |->
                  IF t \in Subtree(s) /\ status[t] = "running"
                    THEN Root ELSE parent[t]]
  /\ UNCHANGED << endpoint, state, issued, ticks,
                  pending, fetchCalls, completions, notifications, reads, now >>

\* the interval callback runs: () => { post(); }
Tick(s) ==
  /\ interval[s].active
  /\ interval[s].due <= now
  /\ TotalCalls < MaxFetches
  /\ post(s, endpoint[s])
  /\ interval' = [interval EXCEPT ![s].due = @ + Period]
  /\ ticks' = [ticks EXCEPT ![s] = @ + 1]
  /\ UNCHANGED << status, endpoint, propEndpoint, parent, state,
                  completions, notifications, reads, now >>

\* fetch number n of session s resolves with data
Resolve(s, n, data) ==
  /\ n \in pending[s]
  /\ pending' = [pending EXCEPT ![s] = @ \ {n}]
  /\ completions' = [completions EXCEPT ![s] =
                       Append(@, [no |-> n, ok |-> TRUE, data |-> data])]
  /\ onFulfilled(s, n, data)
  /\ UNCHANGED << endpoint, propEndpoint, parent, issued, ticks, fetchCalls, reads, now >>

\* fetch number n of session s rejects
Reject(s, n) ==
  /\ n \in pending[s]
  /\ pending' = [pending EXCEPT ![s] = @ \ {n}]
  /\ completions' = [completions EXCEPT ![s] =
                       Append(@, [no |-> n, ok |-> FALSE, data |-> << >>])]
  /\ onRejected(s, n)
  /\ UNCHANGED << endpoint, propEndpoint, parent, issued, ticks, fetchCalls, reads, now >>

\* a reader rendered under pos calls useClientDataState(k)
Read(pos, k) ==
  /\ pos \in Positions
  /\ reads < MaxReads
  /\ reads' = reads + 1
  /\ useContext(pos, k)

\* time passes, up to the next due interval callback
Advance ==
  /\ \A s \in Sessions : interval[s].active => interval[s].due > now
  /\ LET next == Min({now + Step} \cup
                     { interval[s].due : s \in { t \in Sessions : interval[t].active } })
     IN /\ next <= MaxTime
        /\ now' = next
  /\ UNCHANGED << status, endpoint, propEndpoint, parent, state, interval,
                  issued, ticks, pending, fetchCalls, completions,
                  notifications, reads >>

Next ==
  \/ \E s \in Sessions, k \in Keys, p \in {Root} \cup Sessions : Mount(s, k, p)
  \/ \E s \in Sessions, k \in Keys : Render(s, k)
  \/ \E s \in Sessions : Unmount(s)
  \/ \E s \in Sessions : Tick(s)
  \/ \E s \in Sessions, n \in 1..MaxFetches, data \in Responses : Resolve(s, n, data)
  \/ \E s \in Sessions, n \in 1..MaxFetches : Reject(s, n)
  \/ \E pos \in {Root} \cup Sessions, k \in clientEndpoints : Read(pos, k)
  \/ Advance

Spec == Init /\ [][Next]_vars

\* ------------------------------------------------- history, derived
RECURSIVE SumFn(_, _)
SumFn(f, n) == IF n = 0 THEN 0 ELSE f[n] + SumFn(f, n - 1)

Last(q) == q[Len(q)]

IsOk(c) == c.ok

\* the successful completions of session s, in completion order
OkEntries(s) == SelectSeq(completions[s], IsOk)

EverOk(s) == OkEntries(s) # << >>

\* how many fetches of session s have rejected
Rejections(s) == Len(completions[s]) - Len(OkEntries(s))

RejectedTotal == SumFn([s \in Sessions |-> Rejections(s)], MaxSessions)

\* the calls made by the sessions whose effect closure holds key k
IssuedFor(k) ==
  SumFn([s \in Sessions |-> IF endpoint[s] = k THEN issued[s] ELSE 0], MaxSessions)

\* ---------------------------------------------------------------- claims

\* C1: a session that has started and whose first scheduled tick has not yet
\* run has issued exactly one fetch, and every call a session issues is a
\* call of the endpoint function of the key it was started for.
C1_OneFetchBeforeFirstTick ==
  /\ \A s \in Sessions :
       (status[s] # "unmounted" /\ ticks[s] = 0) => issued[s] = 1
  /\ \A k \in clientEndpoints : fetchCalls[k] = IssuedFor(k)

\* a session just started for "sweeps": one fetch in flight, first tick still ahead
C1_Witness ==
  \E s \in Sessions :
    /\ status[s] = "running"
    /\ endpoint[s] = "sweeps"
    /\ ticks[s] = 0
    /\ interval[s].active /\ interval[s].due > now
    /\ issued[s] = 1 /\ pending[s] = {1}
    /\ fetchCalls["sweeps"] = 1

\* C2: a stopped session issues no further fetch and runs no further tick,
\* whatever happens next and however far the clock moves.
C2_NoFetchAfterStop ==
  [][\A s \in Sessions :
       status[s] = "stopped" =>
         /\ issued'[s] = issued[s]
         /\ ticks'[s] = ticks[s]
         /\ pending'[s] \subseteq pending[s]]_vars

\* a session stopped before its first tick, with the clock at or past the
\* moment that tick was scheduled for: still only the initial fetch
C2_Witness ==
  \E s \in Sessions :
    /\ status[s] = "stopped"
    /\ ticks[s] = 0
    /\ interval[s].due <= now
    /\ issued[s] = 1

\* C3: once a session is stopped its snapshot never changes, also when one of
\* its fetches resolves successfully afterwards.
C3_SnapshotFrozenAfterStop ==
  [][\A s \in Sessions : status[s] = "stopped" => state'[s] = state[s]]_vars

\* a stopped session whose latest successful answer is not its snapshot: the
\* answer arrived after the stop and was dropped
C3_Witness ==
  \E s \in Sessions :
    /\ status[s] = "stopped"
    /\ EverOk(s)
    /\ state[s] # Last(OkEntries(s)).data

\* C4: when a fetch of a running session resolves with S, the session's
\* snapshot, and what a reader under the session reads on its channel, is S
\* itself, whatever the snapshot was before.
C4_FullReplacement ==
  [][\A s \in Sessions :
       ( /\ status[s] = "running"
         /\ Len(completions'[s]) = Len(completions[s]) + 1
         /\ Last(completions'[s]).ok )
       => /\ state'[s] = Last(completions'[s]).data
          /\ useClientDataState(s, propEndpoint[s])' = Last(completions'[s]).data]_vars

\* a running session whose second successful answer differs from the first and
\* is what it now shows
C4_Witness ==
  \E s \in Sessions :
    /\ status[s] = "running"
    /\ Len(OkEntries(s)) >= 2
    /\ OkEntries(s)[Len(OkEntries(s)) - 1].data # << >>
    /\ OkEntries(s)[Len(OkEntries(s)) - 1].data # Last(OkEntries(s)).data
    /\ state[s] = Last(OkEntries(s)).data
    /\ useClientDataState(s, propEndpoint[s]) = Last(OkEntries(s)).data

\* C5: a step in which a fetch rejects changes no snapshot and nothing any
\* reader reads, for any key.
C5_RejectKeepsSnapshot ==
  [][RejectedTotal' = RejectedTotal + 1 =>
       /\ state' = state
       /\ \A pos \in Positions, k \in clientEndpoints :
            useClientDataState(pos, k)' = useClientDataState(pos, k)]_vars

\* a running session whose last settled fetch rejected after an earlier one
\* succeeded: it still shows the earlier answer
C5_Witness ==
  \E s \in Sessions :
    /\ status[s] = "running"
    /\ EverOk(s)
    /\ ~Last(completions[s]).ok
    /\ state[s] = Last(OkEntries(s)).data
    /\ state[s] # << >>
    /\ useClientDataState(s, propEndpoint[s]) = state[s]

\* C6: the notifications emitted are exactly one per rejected fetch, each of
\* severity "error"; successful fetches emit none.
C6_OneErrorPerRejection ==
  /\ Len(notifications) = RejectedTotal
  /\ \A i \in DOMAIN notifications : notifications[i].severity = "error"

\* two rejections and a success have happened
C6_Witness ==
  /\ RejectedTotal = 2
  /\ Len(notifications) = 2
  /\ \E s \in Sessions : EverOk(s)

\* C7: the snapshot of a running session is the answer of the fetch that
\* resolved last, whichever fetch was issued first.
C7_LastCompletionWins ==
  \A s \in Sessions :
    (status[s] = "running" /\ EverOk(s)) => state[s] = Last(OkEntries(s)).data

\* the first fetch resolved after the second, with another answer, and it is
\* the first fetch's answer that is shown
C7_Witness ==
  \E s \in Sessions :
    /\ status[s] = "running"
    /\ Len(OkEntries(s)) = 2
    /\ OkEntries(s)[1].no = 2
    /\ OkEntries(s)[2].no = 1
    /\ OkEntries(s)[1].data # OkEntries(s)[2].data
    /\ state[s] = OkEntries(s)[2].data

\* C8: two running sessions for the same key, both started at time 0, have
\* made 4 calls for that key between them once the tick at 1000 ms has run in
\* both (no other session polling the key).
C8_NoDeduplication ==
  \A K \in clientEndpoints : \A s1, s2 \in Sessions :
    ( /\ s1 # s2
      /\ status[s1] = "running" /\ status[s2] = "running"
      /\ endpoint[s1] = K /\ endpoint[s2] = K
      /\ now = Period
      /\ ticks[s1] = 1 /\ ticks[s2] = 1
      /\ \A t \in Sessions \ {s1, s2} : endpoint[t] # K )
    => /\ fetchCalls[K] = 4
       /\ issued[s1] = 2 /\ issued[s2] = 2

\* both sessions poll "sweeps", the clock is at 1000 and both ticks have run
C8_Witness ==
  /\ now = Period
  /\ \E s1, s2 \in Sessions :
       /\ s1 # s2
       /\ status[s1] = "running" /\ status[s2] = "running"
       /\ endpoint[s1] = "sweeps" /\ endpoint[s2] = "sweeps"
       /\ ticks[s1] = 1 /\ ticks[s2] = 1
       /\ interval[s1].due = 2 * Period /\ interval[s2].due = 2 * Period
       /\ fetchCalls["sweeps"] = 4

\* C9: a rejection changes neither the status nor the timer of any session; a
\* running session always has a live timer, each of whose ticks issues one
\* more fetch; and a session is only ever unmounted, running or stopped.
C9_FailuresDoNotStopPolling ==
  [][/\ RejectedTotal' = RejectedTotal + 1 =>
          (status' = status /\ interval' = interval)
     /\ \A s \in Sessions :
          /\ status'[s] \in {"unmounted", "running", "stopped"}
          /\ status'[s] = "running" => interval'[s].active
          /\ ticks'[s] # ticks[s] =>
               (ticks'[s] = ticks[s] + 1 /\ issued'[s] = issued[s] + 1)]_vars

\* both fetches the session has made rejected, the second one made by a tick,
\* and the session still runs with a live timer
C9_Witness ==
  \E s \in Sessions :
    /\ status[s] = "running"
    /\ interval[s].active
    /\ issued[s] = 2 /\ ticks[s] = 1
    /\ pending[s] = {}
    /\ ~EverOk(s)
    /\ completions[s][1].no = 1

\* C10: a reader reads the empty sequence for a key as long as no fetch of the
\* nearest enclosing session for that key has resolved successfully, and
\* whenever there is no such session.
C10_EmptyUntilFirstSuccess ==
  \A pos \in Positions : \A k \in clientEndpoints :
    LET p == NearestProvider(pos, k)
    IN (p = Root \/ ~EverOk(p)) => useClientDataState(pos, k) = << >>

\* a reader under a session whose fetches so far rejected or are in flight,
\* and a reader of a key for which there is no session
C10_Witness ==
  \E s \in Sessions :
    /\ status[s] = "running"
    /\ Rejections(s) >= 1
    /\ pending[s] # {}
    /\ useClientDataState(s, propEndpoint[s]) = << >>
    /\ NearestProvider(s, "tensorboards") = Root
    /\ useClientDataState(s, "tensorboards") = << >>

\* C11: a step in which a reader reads changes nothing but the count of
\* reads: no fetch is issued or settled, no timer, snapshot, notification or
\* session changes, so the calls made do not depend on the reads.
C11_ReadIsPureObserver ==
  [][reads' # reads =>
       /\ fetchCalls' = fetchCalls /\ issued' = issued /\ pending' = pending
       /\ interval' = interval /\ ticks' = ticks
       /\ notifications' = notifications
       /\ state' = state /\ completions' = completions
       /\ status' = status /\ endpoint' = endpoint
       /\ propEndpoint' = propEndpoint /\ parent' = parent]_vars

\* a reader has read while a session with a published snapshot runs: the
\* only call made is still the one the session made itself
C11_Witness ==
  /\ reads >= 1
  /\ \E s \in Sessions :
       /\ status[s] = "running"
       /\ state[s] # << >>
       /\ issued[s] = 1
       /\ TotalCalls = 1

\* C12: every session that was started has issued one fetch more than the
\* ticks it has run, whatever was in flight when a tick ran; its fetches in
\* flight are among those it issued.
C12_OneFetchPerTick ==
  \A s \in Sessions :
    /\ status[s] # "unmounted" =>
         (issued[s] = ticks[s] + 1 /\ pending[s] \subseteq 1..issued[s])
    /\ status[s] = "unmounted" => (issued[s] = 0 /\ ticks[s] = 0)

\* a tick has run while the first fetch was in flight: two fetches of one
\* session are in flight at once
C12_Witness ==
  \E s \in Sessions :
    /\ status[s] = "running"
    /\ ticks[s] = 1
    /\ issued[s] = 2
    /\ pending[s] = {1, 2}

\* the sessions that own a live timer
LiveTimers == { s \in Sessions : interval[s].active }

\* C13: the sessions that own a live timer are exactly the running ones: a
\* stopped session, like one not yet started, owns none.
C13_TimersAreRunningSessions ==
  /\ LiveTimers = Running
  /\ Cardinality(LiveTimers) =
       Cardinality({ s \in Sessions : status[s] # "unmounted" })
         - Cardinality({ s \in Sessions : status[s] = "stopped" })

\* one session has been stopped and another one runs: one live timer
C13_Witness ==
  /\ \E s \in Sessions : status[s] = "stopped" /\ ~interval[s].active
  /\ \E s \in Sessions : status[s] = "running" /\ interval[s].active
  /\ Cardinality(LiveTimers) = 1

\* the answers of the fetches of session s that resolved successfully
OkData(s) == { OkEntries(s)[i].data : i \in DOMAIN OkEntries(s) }

\* C14: the snapshot of a session is the empty sequence or the answer of one
\* of its own successfully resolved fetches.
C14_SnapshotFromOwnSuccess ==
  \A s \in Sessions : state[s] = << >> \/ state[s] \in OkData(s)

\* one session shows its own answer after a later rejection, while another
\* session, all of whose fetches rejected, shows nothing
C14_Witness ==
  \E s, t \in Sessions :
    /\ s # t
    /\ status[s] = "running" /\ status[t] = "running"
    /\ state[s] # << >> /\ state[s] \in OkData(s)
    /\ ~Last(completions[s]).ok
    /\ completions[t] # << >> /\ ~EverOk(t)
    /\ state[t] = << >>

\* C15: a running session calls the endpoint function of the same key as the
\* context it provides its snapshot on, also after its endpoint prop changed.
C15_FetchKeyIsChannelKey ==
  \A s \in Sessions : status[s] = "running" => endpoint[s] = propEndpoint[s]

\* a reader under pos reads, for key k, the snapshot of the closest running
\* provider of k's context at or above pos, and the default when there is none
ReadsNearestEnclosing ==
  \A pos \in Running : \A k \in clientEndpoints :
    LET above == { q \in Running : IsUnder(pos, q) /\ propEndpoint[q] = k }
    IN /\ above = {} => useClientDataState(pos, k) = clientDataContexts[k]
       /\ \A q \in above :
            (\A r \in above : IsUnder(q, r)) => useClientDataState(pos, k) = state[q]

\* C16: a step in which a fetch of one session settles changes the snapshot
\* of no other session, whatever their keys; and a reader always reads the
\* snapshot of its nearest enclosing session for its key (stated after every
\* step that changes a snapshot, a prop, the tree or a status: reads depend
\* on nothing else, and before the first mount there is no reader position
\* but the root).
C16_SessionsIsolated ==
  [][/\ \A s \in Sessions :
          completions'[s] # completions[s] =>
            \A t \in Sessions \ {s} : state'[t] = state[t]
     /\ \/ UNCHANGED << state, propEndpoint, parent, status >>
        \/ ReadsNearestEnclosing']_vars

\* two running sessions for the same key, one nested in the other, show
\* different answers; a reader under the inner one reads the inner one's
C16_Witness ==
  \E s, t \in Sessions :
    /\ s # t
    /\ status[s] = "running" /\ status[t] = "running"
    /\ parent[t] = s
    /\ endpoint[s] = endpoint[t]
    /\ propEndpoint[s] = propEndpoint[t]
    /\ state[s] # << >> /\ state[t] # << >>
    /\ state[s] # state[t]
    /\ useClientDataState(t, propEndpoint[t]) = state[t]
    /\ useClientDataState(s, propEndpoint[s]) = state[s]

TypeOK ==
  /\ status \in [Sessions -> {"unmounted", "running", "stopped"}]
  /\ now \in 0..MaxTime

====
